---- MODULE Spec2Model ----
(***************************************************************************)
(* A model of homework.py: the credential check, the status endpoint       *)
(* client, the response validator, the status translator, the notifier     *)
(* and the poll loop of main().                                            *)
(*                                                                         *)
(* Texts are modelled structurally: an f-string is a record of its fixed   *)
(* part (pre, kind) and of the values it interpolates (exc, arg, params),  *)
(* so two texts are equal exactly when the rendered strings are. The        *)
(* Russian literals of the source are written in Latin letters.            *)
(***************************************************************************)
EXTENDS Integers, Sequences, FiniteSets, TLC

\* Unix seconds are drawn from 0..MaxTime.
MaxTime == 1
\* The longest 'homeworks' list the endpoint returns.
MaxHw == 2

RETRY_PERIOD == 600
HTTP_OK == 200
HOMEWORKS_KEY == "homeworks"
CURR_TIME_KEY == "current_date"

VARIABLES
    env,        \* the module globals PRACTICUM_TOKEN, TELEGRAM_TOKEN, TELEGRAM_CHAT_ID
    pc,         \* position of main(): "start", "loop", "halted", "crashed"
    tokens_err, \* the exception check_tokens() raised at startup (NoErr: none)
    timestamp,  \* main()'s local timestamp: the poll watermark
    msg,        \* main()'s local msg: the last notification text
    last,       \* what the most recent iteration of the loop did; fresh: it
                \* failed with a text other than msg; repeat: it and the
                \* iteration before it failed with the same text; kept: it
                \* left msg as it was; novel, sameCause, sameParams: how its
                \* failure text compares with the most recent attempt;
                \* movedSince: timestamp changed between that attempt and
                \* this iteration
    prev,       \* a summary of the iteration before that one
    call,       \* a call of parse_status on its own: argument and result
    attempted   \* the most recent call of send_message in main: whether
                \* there was one, its text, and whether an iteration has
                \* changed timestamp since

vars == <<env, pc, tokens_err, timestamp, msg, last, prev, call, attempted>>

----------------------------------------------------------------------------
\* Values

None == "None"

token_names == <<"PRACTICUM_TOKEN", "TELEGRAM_TOKEN", "TELEGRAM_CHAT_ID">>

HOMEWORK_VERDICTS ==
    [approved  |-> "Rabota proverena: revyueru vsyo ponravilos. Ura!",
     reviewing |-> "Rabota vzyata na proverku revyuerom.",
     rejected  |-> "Rabota proverena: u revyuera est zamechaniya."]

\* An exception: its class, the fixed part of its message and the values
\* the message interpolates.
Exc(exc, kind, arg, params) ==
    [exc |-> exc, kind |-> kind, arg |-> arg, params |-> params]

NoErr == Exc("", "", <<>>, <<>>)

\* f'{prefix}{err}'
Render(prefix, err) ==
    [pre |-> prefix, exc |-> err.exc, kind |-> err.kind,
     arg |-> err.arg, params |-> err.params]

EmptyText == Render("", NoErr)

SeqToSet(s) == {s[i] : i \in 1..Len(s)}

----------------------------------------------------------------------------
\* check_tokens

\* The names of token_names whose global is None, in the order of the loop,
\* when the loop stops after the first one.
check_tokens_first(globals) ==
    LET empty_tokens == SelectSeq(token_names, LAMBDA name : globals[name] = None)
    IN  IF empty_tokens # <<>>
        THEN Exc("TypeError", "Tokens [] are not defined.",
                 <<Head(empty_tokens)>>, <<>>)
        ELSE NoErr

\* check_tokens that only fails when no token at all is defined.
check_tokens_lenient(globals) ==
    LET empty_tokens == SelectSeq(token_names, LAMBDA name : globals[name] = None)
    IN  IF Len(empty_tokens) = Len(token_names)
        THEN Exc("TypeError", "Tokens [] are not defined.", empty_tokens, <<>>)
        ELSE NoErr

check_tokens(globals) ==
    LET empty_tokens == SelectSeq(token_names, LAMBDA name : globals[name] = None)
    IN  IF empty_tokens # <<>>
        THEN Exc("TypeError", "Tokens [] are not defined.", empty_tokens, <<>>)
        ELSE NoErr

----------------------------------------------------------------------------
\* send_message

\* send_message that lets telegram.error.TelegramError escape.
send_message_raising(message, delivery_ok) ==
    [raised |-> ~delivery_ok, delivered |-> delivery_ok,
     log |-> IF delivery_ok THEN "debug" ELSE "none"]

\* The outcome of one call of send_message: whether an exception left it,
\* whether the text reached the chat, and the level it logged at last.
\* bot.send_message either delivers or raises telegram.error.TelegramError,
\* which send_message catches and logs.
send_message(message, delivery_ok) ==
    [raised |-> FALSE, delivered |-> delivery_ok,
     log |-> IF delivery_ok THEN "debug" ELSE "error"]

----------------------------------------------------------------------------
\* get_api_answer

\* What requests.get did: net is "ok" or the cause of a RequestException;
\* json tells whether the body parses; body is the parsed payload.
NoAnswer ==
    [type |-> "none", keys |-> {}, hwtype |-> "none", homeworks |-> <<>>,
     current_date |-> 0]

get_api_answer(ts, http) ==
    IF http.net # "ok"
    THEN [err |-> Exc("ConnectionError",
                      "Error while requesting API answer from endpoint with parameters",
                      <<http.net>>, <<ts>>),
          val |-> NoAnswer]
    ELSE IF http.status_code # HTTP_OK
    THEN [err |-> Exc("APIError", "Got unexpected status from API.",
                      <<http.reason>>, <<http.status_code>>),
          val |-> NoAnswer]
    ELSE IF ~http.json
    THEN [err |-> Exc("JSONDecodeError", "Expecting value", <<>>, <<>>),
          val |-> NoAnswer]
    ELSE [err |-> NoErr, val |-> http.body]

----------------------------------------------------------------------------
\* check_response

answer_keys == <<HOMEWORKS_KEY, CURR_TIME_KEY>>

\* check_response that reports only the first missing key.
check_response_first(response) ==
    IF response.type # "dict"
    THEN Exc("TypeError", "Response object type is, expected type: dict.",
             <<response.type>>, <<>>)
    ELSE LET missing_keys ==
                 SelectSeq(answer_keys, LAMBDA key : key \notin response.keys)
         IN  IF missing_keys # <<>>
             THEN Exc("KeyError", "Not found keys [] in response.",
                      <<Head(missing_keys)>>, <<>>)
             ELSE IF response.hwtype # "list"
             THEN Exc("TypeError",
                      "Homeworks object type is, expected type: list.",
                      <<response.hwtype>>, <<>>)
             ELSE NoErr

check_response(response) ==
    IF response.type # "dict"
    THEN Exc("TypeError", "Response object type is, expected type: dict.",
             <<response.type>>, <<>>)
    ELSE LET missing_keys ==
                 SelectSeq(answer_keys, LAMBDA key : key \notin response.keys)
         IN  IF missing_keys # <<>>
             THEN Exc("KeyError", "Not found keys [] in response.",
                      missing_keys, <<>>)
             ELSE IF response.hwtype # "list"
             THEN Exc("TypeError",
                      "Homeworks object type is, expected type: list.",
                      <<response.hwtype>>, <<>>)
             ELSE NoErr

----------------------------------------------------------------------------
\* parse_status

\* homework_keys.values(), in the order of the dict literal
homework_keys == <<"homework_name", "status">>

NoHomework == [type |-> "none", keys |-> {}, homework_name |-> "", status |-> ""]

StatusText(homework_name, verdict) ==
    [pre |-> "", exc |-> "", kind |-> "Izmenilsya status proverki raboty",
     arg |-> <<homework_name, verdict>>, params |-> <<>>]

\* parse_status with a silent default in place of the failed lookup.
parse_status_default(homework) ==
    IF homework.type # "dict"
    THEN [err |-> Exc("TypeError", "argument of type is not iterable",
                      <<homework.type>>, <<>>),
          val |-> EmptyText]
    ELSE LET missing_keys ==
                 SelectSeq(homework_keys, LAMBDA key : key \notin homework.keys)
         IN  IF missing_keys # <<>>
             THEN [err |-> Exc("KeyError", "Not found keys [] in homework obj.",
                               missing_keys, <<>>),
                   val |-> EmptyText]
             ELSE [err |-> NoErr,
                   val |-> StatusText(homework.homework_name,
                              IF homework.status \in DOMAIN HOMEWORK_VERDICTS
                              THEN HOMEWORK_VERDICTS[homework.status]
                              ELSE homework.status)]

parse_status(homework) ==
    IF homework.type # "dict"
    THEN [err |-> Exc("TypeError", "argument of type is not iterable",
                      <<homework.type>>, <<>>),
          val |-> EmptyText]
    ELSE LET missing_keys ==
                 SelectSeq(homework_keys, LAMBDA key : key \notin homework.keys)
         IN  IF missing_keys # <<>>
             THEN [err |-> Exc("KeyError", "Not found keys [] in homework obj.",
                               missing_keys, <<>>),
                   val |-> EmptyText]
             ELSE IF homework.status \notin DOMAIN HOMEWORK_VERDICTS
             THEN [err |-> Exc("KeyError", "Not found key in verdicts dict.",
                               <<homework.status>>, <<>>),
                   val |-> EmptyText]
             ELSE [err |-> NoErr,
                   val |-> StatusText(homework.homework_name,
                                      HOMEWORK_VERDICTS[homework.status])]

----------------------------------------------------------------------------
\* main: the pieces of one iteration of the while loop

API_PREFIX == "Oshibka pri obraschenii k API: "
RESPONSE_PREFIX == "Nepredusmotrennyi otvet ot API: "
STATUS_PREFIX == "Oshibka pri proverke statusa DZ: "

\* What an iteration read of the answer, kept for the record of the cycle.
Summary(api_ans) ==
    [type |-> api_ans.type, keys |-> api_ans.keys, hwtype |-> api_ans.hwtype,
     n |-> Len(api_ans.homeworks), current_date |-> api_ans.current_date]

\* The except block without the comparison with msg.
ReportError_always(prefix, err, m, delivery_ok) ==
    LET err_msg == Render(prefix, err)
        sent == send_message(err_msg, delivery_ok)
    IN  [attempts |-> <<[text |-> err_msg, delivered |-> sent.delivered]>>,
         msg |-> IF sent.raised THEN m ELSE err_msg,
         raised |-> sent.raised]

\* The except block without msg = err_msg.
ReportError_forgetful(prefix, err, m, delivery_ok) ==
    LET err_msg == Render(prefix, err)
        sent == send_message(err_msg, delivery_ok)
    IN  IF err_msg # m
        THEN [attempts |-> <<[text |-> err_msg, delivered |-> sent.delivered]>>,
              msg |-> m,
              raised |-> sent.raised]
        ELSE [attempts |-> <<>>, msg |-> m, raised |-> FALSE]

\* err_msg = f'{prefix}{err}'; if err_msg != msg: send_message(bot, err_msg);
\* msg = err_msg. raised: send_message let an exception out of the block.
ReportError(prefix, err, m, delivery_ok) ==
    LET err_msg == Render(prefix, err)
        sent == send_message(err_msg, delivery_ok)
    IN  IF err_msg # m
        THEN [attempts |-> <<[text |-> err_msg, delivered |-> sent.delivered]>>,
              msg |-> IF sent.raised THEN m ELSE err_msg,
              raised |-> sent.raised]
        ELSE [attempts |-> <<>>, msg |-> m, raised |-> FALSE]

\* The value of timestamp when an except block ends in continue, if the
\* block took the answer's watermark.
TimestampOnContinue_advancing(ts, api_ans) ==
    IF api_ans.type = "dict" /\ CURR_TIME_KEY \in api_ans.keys
    THEN api_ans.current_date
    ELSE ts

\* An except block never assigns timestamp.
TimestampOnContinue(ts, api_ans) == ts

\* An except block of main: the step that failed, its prefix and exception;
\* before: the steps and attempts of the try block so far; finally_sleep:
\* the try statement has the finally clause that sleeps.
ExceptBlock(stage, prefix, err, ts, m, api_ans, hw, before, delivery_ok, finally_sleep) ==
    LET h == ReportError(prefix, err, m, delivery_ok)
        sleeps == ~h.raised \/ finally_sleep
    IN  [timestamp |-> TimestampOnContinue(ts, api_ans),
         msg |-> h.msg,
         crashed |-> h.raised,
         outcome |-> stage,
         err |-> err,
         text |-> Render(prefix, err),
         attempts |-> before.attempts \o h.attempts,
         steps |-> before.steps
                   \o (IF h.attempts # <<>> THEN <<"send">> ELSE <<>>)
                   \o (IF sleeps THEN <<"sleep">> ELSE <<>>),
         slept |-> IF sleeps THEN RETRY_PERIOD ELSE 0,
         hw |-> hw,
         translated |-> before.translated,
         answer |-> Summary(api_ans)]

\* timestamp = api_ans.get(CURR_TIME_KEY), reading a stale value.
Advance_stale(ts, api_ans) == ts

\* timestamp = api_ans.get(CURR_TIME_KEY)
Advance(ts, api_ans) == api_ans.current_date

\* The empty branch leaving the loop iteration before the assignment.
EmptyBranch_skip(ts, m, api_ans, before) ==
    [timestamp |-> ts,
     msg |-> m,
     crashed |-> FALSE,
     outcome |-> "empty",
     err |-> NoErr,
     text |-> EmptyText,
     attempts |-> before.attempts,
     steps |-> before.steps \o <<"sleep">>,
     slept |-> RETRY_PERIOD,
     hw |-> NoHomework,
     translated |-> 0,
     answer |-> Summary(api_ans)]

\* The empty branch clearing msg.
EmptyBranch_reset(ts, m, api_ans, before) ==
    [timestamp |-> Advance(ts, api_ans),
     msg |-> EmptyText,
     crashed |-> FALSE,
     outcome |-> "empty",
     err |-> NoErr,
     text |-> EmptyText,
     attempts |-> before.attempts,
     steps |-> before.steps \o <<"sleep">>,
     slept |-> RETRY_PERIOD,
     hw |-> NoHomework,
     translated |-> 0,
     answer |-> Summary(api_ans)]

\* The empty branch when continue leaves the iteration without the sleep.
EmptyBranch_nosleep(ts, m, api_ans, before) ==
    [timestamp |-> Advance(ts, api_ans),
     msg |-> m,
     crashed |-> FALSE,
     outcome |-> "empty",
     err |-> NoErr,
     text |-> EmptyText,
     attempts |-> before.attempts,
     steps |-> before.steps,
     slept |-> 0,
     hw |-> NoHomework,
     translated |-> 0,
     answer |-> Summary(api_ans)]

\* if not homeworks: timestamp = api_ans.get(CURR_TIME_KEY); continue
\* (the finally clause sleeps on the way out)
EmptyBranch(ts, m, api_ans, before) ==
    [timestamp |-> Advance(ts, api_ans),
     msg |-> m,
     crashed |-> FALSE,
     outcome |-> "empty",
     err |-> NoErr,
     text |-> EmptyText,
     attempts |-> before.attempts,
     steps |-> before.steps \o <<"sleep">>,
     slept |-> RETRY_PERIOD,
     hw |-> NoHomework,
     translated |-> 0,
     answer |-> Summary(api_ans)]

\* The status branch sending only a text other than msg.
TranslateAndSend_dedup(ts, m, api_ans, before, d1, d2) ==
    LET homeworks == api_ans.homeworks
        hw == homeworks[Len(homeworks)]
        parsed == parse_status(hw)
        tried == [before EXCEPT !.steps = @ \o <<"parse">>, !.translated = 1]
        sent == send_message(parsed.val, d1)
        after == IF parsed.val = m
                 THEN tried
                 ELSE [tried EXCEPT
                          !.steps = @ \o <<"send">>,
                          !.attempts = @ \o <<[text |-> parsed.val,
                                               delivered |-> sent.delivered]>>]
    IN  IF parsed.err # NoErr
        THEN ExceptBlock("parse_failed", STATUS_PREFIX, parsed.err, ts, m,
                         api_ans, hw, tried, d1, TRUE)
        ELSE [timestamp |-> Advance(ts, api_ans),
              msg |-> parsed.val,
              crashed |-> FALSE,
              outcome |-> "notified",
              err |-> NoErr,
              text |-> parsed.val,
              attempts |-> after.attempts,
              steps |-> after.steps \o <<"sleep">>,
              slept |-> RETRY_PERIOD,
              hw |-> hw,
              translated |-> 1,
              answer |-> Summary(api_ans)]

\* msg = parse_status(homeworks.pop()); send_message(bot, msg); then the
\* except and finally clauses and the assignment after the try statement.
TranslateAndSend(ts, m, api_ans, before, d1, d2) ==
    LET homeworks == api_ans.homeworks
        hw == homeworks[Len(homeworks)]
        parsed == parse_status(hw)
        tried == [before EXCEPT !.steps = @ \o <<"parse">>, !.translated = 1]
        sent == send_message(parsed.val, d1)
        after == [tried EXCEPT
                     !.steps = @ \o <<"send">>,
                     !.attempts = @ \o <<[text |-> parsed.val,
                                          delivered |-> sent.delivered]>>]
    IN  IF parsed.err # NoErr
        THEN ExceptBlock("parse_failed", STATUS_PREFIX, parsed.err, ts, m,
                         api_ans, hw, tried, d1, TRUE)
        ELSE IF sent.raised
        THEN ExceptBlock("send_failed", STATUS_PREFIX,
                         Exc("TelegramError", "", <<>>, <<>>), ts, parsed.val,
                         api_ans, hw, after, d2, TRUE)
        ELSE [timestamp |-> Advance(ts, api_ans),
              msg |-> parsed.val,
              crashed |-> FALSE,
              outcome |-> "notified",
              err |-> NoErr,
              text |-> parsed.val,
              attempts |-> after.attempts,
              steps |-> after.steps \o <<"sleep">>,
              slept |-> RETRY_PERIOD,
              hw |-> hw,
              translated |-> 1,
              answer |-> Summary(api_ans)]

\* The iteration without the call of check_response.
LoopBody_unchecked(ts, m, http, d1, d2) ==
    LET none == [steps |-> <<>>, attempts |-> <<>>, translated |-> 0]
        fetched == get_api_answer(ts, http)
        api_ans == fetched.val
        f == [none EXCEPT !.steps = <<"fetch">>]
    IN  IF fetched.err # NoErr
        THEN ExceptBlock("fetch_failed", API_PREFIX, fetched.err, ts, m,
                         NoAnswer, NoHomework, f, d1, FALSE)
        ELSE IF api_ans.homeworks = <<>>
        THEN EmptyBranch(ts, m, api_ans, f)
        ELSE TranslateAndSend(ts, m, api_ans, f, d1, d2)

\* One iteration of the while loop of main, from get_api_answer to the
\* statement that ends it, given what the endpoint and the two possible
\* deliveries of this iteration do.
LoopBody(ts, m, http, d1, d2) ==
    LET none == [steps |-> <<>>, attempts |-> <<>>, translated |-> 0]
        fetched == get_api_answer(ts, http)
        api_ans == fetched.val
        f == [none EXCEPT !.steps = <<"fetch">>]
        c == [f EXCEPT !.steps = @ \o <<"check">>]
        checked == check_response(api_ans)
    IN  IF fetched.err # NoErr
        THEN ExceptBlock("fetch_failed", API_PREFIX, fetched.err, ts, m,
                         NoAnswer, NoHomework, f, d1, FALSE)
        ELSE IF checked # NoErr
        THEN ExceptBlock("check_failed", RESPONSE_PREFIX, checked, ts, m,
                         api_ans, NoHomework, c, d1, FALSE)
        ELSE IF api_ans.homeworks = <<>>
        THEN EmptyBranch(ts, m, api_ans, c)
        ELSE TranslateAndSend(ts, m, api_ans, c, d1, d2)

----------------------------------------------------------------------------
\* What the environment can do

Names == {"diplom"}
Statuses == {"approved", "rejected", "pending"}

Homework(keys, homework_name, status) ==
    [type |-> "dict", keys |-> keys, homework_name |-> homework_name,
     status |-> status]

\* Elements of a 'homeworks' list in the loop: records with both fields (two
\* statuses of the table and one outside it) and records with fields
\* missing. ParseInputs below is the wider set parse_status is checked on.
HomeworkRecords ==
    {Homework({"homework_name", "status"}, n, s) : n \in Names, s \in Statuses}
    \cup {Homework({}, "", "")}

HomeworkLists == UNION {[1..n -> HomeworkRecords] : n \in 0..MaxHw}

Payload(type, keys, hwtype, homeworks, current_date) ==
    [type |-> type, keys |-> keys, hwtype |-> hwtype,
     homeworks |-> homeworks, current_date |-> current_date]

\* Parsed bodies: values that are no dict, dicts with a key missing, dicts
\* whose 'homeworks' is no list, and dicts of the expected shape.
Payloads ==
    {Payload(t, {}, "none", <<>>, 0) : t \in {"list", "str", "NoneType"}}
    \cup {Payload("dict", {}, "none", <<>>, 0),
          Payload("dict", {HOMEWORKS_KEY}, "list", <<>>, 0)}
    \cup {Payload("dict", {CURR_TIME_KEY}, "none", <<>>, c) : c \in 0..MaxTime}
    \cup {Payload("dict", {HOMEWORKS_KEY, CURR_TIME_KEY}, t, <<>>, c) :
             t \in {"str", "dict", "NoneType"}, c \in 0..MaxTime}
    \cup {Payload("dict", {HOMEWORKS_KEY, CURR_TIME_KEY}, "list", l, c) :
             l \in HomeworkLists, c \in 0..MaxTime}

Http(net, status_code, reason, json, body) ==
    [net |-> net, status_code |-> status_code, reason |-> reason,
     json |-> json, body |-> body]

HttpOutcomes ==
    {Http("timeout", 0, "", FALSE, NoAnswer),
     Http("ok", 503, "Service Unavailable", FALSE, NoAnswer),
     Http("ok", HTTP_OK, "OK", FALSE, NoAnswer)}
    \cup {Http("ok", HTTP_OK, "OK", TRUE, b) : b \in Payloads}

----------------------------------------------------------------------------
\* The state machine

NoCycle ==
    [outcome |-> "none", err |-> NoErr, text |-> EmptyText, attempts |-> <<>>,
     steps |-> <<>>, slept |-> 0, hw |-> NoHomework, translated |-> 0,
     answer |-> Summary(NoAnswer), tsBefore |-> 0, fresh |-> FALSE,
     repeat |-> FALSE, kept |-> TRUE, novel |-> FALSE, sameCause |-> FALSE,
     sameParams |-> FALSE, movedSince |-> FALSE]

NoCall == [arg |-> NoHomework, err |-> NoErr, val |-> EmptyText, done |-> FALSE]

NoPrev ==
    [failed |-> FALSE, attempts |-> 0, fresh |-> FALSE, undelivered |-> FALSE]

NoAttempt == [made |-> FALSE, text |-> EmptyText, moved |-> FALSE]

\* Two failures that differ at most in the parameters their texts embed.
SameCause(text, prefix, err) ==
    /\ text.pre = prefix
    /\ text.exc = err.exc
    /\ text.kind = err.kind
    /\ text.arg = err.arg

FailureOutcomes == {"fetch_failed", "check_failed", "parse_failed", "send_failed"}

Init ==
    /\ env \in [SeqToSet(token_names) -> {None, "set"}]
    /\ pc = "start"
    /\ tokens_err = NoErr
    /\ timestamp = 0
    /\ msg = EmptyText
    /\ last = NoCycle
    /\ prev = NoPrev
    /\ call = NoCall
    /\ attempted = NoAttempt

\* check_tokens() raises: the exception leaves main().
StartupFails ==
    /\ pc = "start"
    /\ check_tokens(env) # NoErr
    /\ tokens_err' = check_tokens(env)
    /\ pc' = "halted"
    /\ UNCHANGED <<env, timestamp, msg, last, prev, call, attempted>>

\* check_tokens() returns; timestamp = int(time.time()); msg = ''
Startup ==
    /\ pc = "start"
    /\ check_tokens(env) = NoErr
    /\ tokens_err' = NoErr
    /\ pc' = "loop"
    /\ timestamp' \in 0..MaxTime
    /\ msg' = EmptyText
    /\ UNCHANGED <<env, last, prev, call, attempted>>

\* One iteration of while True. delivery_ok: whether bot.send_message
\* succeeds during this iteration.
Cycle ==
    /\ pc = "loop"
    /\ \E http \in HttpOutcomes, delivery_ok \in BOOLEAN :
         \E r \in {LoopBody(timestamp, msg, http, delivery_ok, delivery_ok)} :
             /\ timestamp' = r.timestamp
             /\ msg' = r.msg
             /\ pc' = IF r.crashed THEN "crashed" ELSE "loop"
             /\ last' = [outcome |-> r.outcome, err |-> r.err, text |-> r.text,
                         attempts |-> r.attempts, steps |-> r.steps,
                         slept |-> r.slept, hw |-> r.hw,
                         translated |-> r.translated, answer |-> r.answer,
                         tsBefore |-> timestamp,
                         fresh |-> (r.outcome \in FailureOutcomes
                                    /\ r.text # msg),
                         repeat |-> (r.outcome \in FailureOutcomes
                                     /\ last.outcome \in FailureOutcomes
                                     /\ r.text = last.text),
                         kept |-> (r.msg = msg),
                         novel |-> (r.outcome \in FailureOutcomes
                                    /\ (~attempted.made
                                        \/ r.text # attempted.text)),
                         sameCause |-> (r.outcome \in FailureOutcomes
                                        /\ attempted.made
                                        /\ SameCause(attempted.text,
                                                     r.text.pre, r.err)),
                         sameParams |-> (r.outcome \in FailureOutcomes
                                         /\ attempted.made
                                         /\ attempted.text.params
                                                = r.err.params),
                         movedSince |-> attempted.moved]
             /\ prev' = [failed |-> last.outcome \in FailureOutcomes,
                         attempts |-> Len(last.attempts),
                         fresh |-> last.fresh,
                         undelivered |->
                             (\E i \in 1..Len(last.attempts) :
                                 /\ last.attempts[i].text.pre = ""
                                 /\ ~last.attempts[i].delivered)]
             /\ attempted' =
                    IF r.attempts # <<>>
                    THEN [made |-> TRUE,
                          text |-> r.attempts[Len(r.attempts)].text,
                          moved |-> FALSE]
                    ELSE [attempted EXCEPT
                             !.moved = @ \/ (attempted.made
                                             /\ r.timestamp # timestamp)]
    /\ UNCHANGED <<env, tokens_err, call>>

Next == StartupFails \/ Startup \/ Cycle

Spec == Init /\ [][Next]_vars

----------------------------------------------------------------------------
\* parse_status on its own: every record of ParseInputs is passed to it once.

ParseNames == {"diplom", "hw2", "homework 3", "approved", ""}
ParseStatuses ==
    {"approved", "reviewing", "rejected", "pending", "APPROVED", "None",
     "diplom", ""}

ParseInputs ==
    {Homework({"homework_name", "status"}, n, s) :
        n \in ParseNames, s \in ParseStatuses}
    \cup {Homework({"homework_name"}, n, "") : n \in ParseNames}
    \cup {Homework({"status"}, "", s) : s \in ParseStatuses}
    \cup {Homework({}, "", "")}
    \cup {[type |-> t, keys |-> {}, homework_name |-> "", status |-> ""] :
             t \in {"int", "NoneType"}}

InitParse ==
    /\ env = [n \in SeqToSet(token_names) |-> "set"]
    /\ pc = "parse_status"
    /\ tokens_err = NoErr
    /\ timestamp = 0
    /\ msg = EmptyText
    /\ last = NoCycle
    /\ prev = NoPrev
    /\ attempted = NoAttempt
    /\ call \in {[NoCall EXCEPT !.arg = h] : h \in ParseInputs}

CallParseStatus ==
    /\ pc = "parse_status"
    /\ ~call.done
    /\ call' = [call EXCEPT !.err = parse_status(call.arg).err,
                            !.val = parse_status(call.arg).val,
                            !.done = TRUE]
    /\ UNCHANGED <<env, pc, tokens_err, timestamp, msg, last, prev, attempted>>

SpecParse == InitParse /\ [][CallParseStatus]_vars

----------------------------------------------------------------------------
\* Properties

Failed == last.outcome \in FailureOutcomes
AttemptsOfLast == Len(last.attempts)

\* C1: an iteration whose answer passed get_api_answer, check_response and
\* parse_status ends with timestamp equal to the 'current_date' of that
\* answer, whatever timestamp was before and whether or not the message
\* was delivered.
C1_AdvancesToReportedWatermark ==
    last.outcome = "notified" =>
        /\ last.steps = <<"fetch", "check", "parse", "send", "sleep">>
        /\ timestamp = last.answer.current_date

C1_Witness ==
    /\ last.outcome = "notified"
    /\ last.answer.current_date # last.tsBefore
    /\ timestamp = last.answer.current_date

\* C2: an iteration in which get_api_answer, check_response or parse_status
\* raised leaves timestamp as it was before the iteration.
C2_FailureKeepsWatermark ==
    Failed => timestamp = last.tsBefore

C2_Witness ==
    /\ last.outcome = "parse_failed"
    /\ last.answer.current_date # last.tsBefore
    /\ timestamp = last.tsBefore

\* C3: timestamp after an iteration is never smaller than before it.
C3_NeverRolledBack ==
    last.outcome # "none" => timestamp >= last.tsBefore

\* C4 as stated: two consecutive failing iterations with the same text make
\* exactly one attempt, in the first one; with different texts the second
\* one makes an attempt.
C4_ExactlyOneAcrossTwo ==
    /\ last.repeat => (prev.attempts = 1 /\ AttemptsOfLast = 0)
    /\ (Failed /\ prev.failed /\ ~last.repeat) => AttemptsOfLast = 1

\* C4 amended: of two consecutive failing iterations with the same text the
\* second makes no attempt and the first makes at most one, namely exactly
\* when its text differed from msg at its start; with different texts the
\* second one makes an attempt.
C4_SecondSuppressed ==
    /\ last.repeat =>
          /\ AttemptsOfLast = 0
          /\ prev.attempts <= 1
          /\ (prev.attempts = 1) <=> prev.fresh
    /\ (Failed /\ prev.failed /\ ~last.repeat) => AttemptsOfLast = 1

C4_Witness ==
    /\ last.repeat
    /\ prev.attempts = 1
    /\ AttemptsOfLast = 0

\* C5: an iteration whose answer is valid and has an empty 'homeworks' list
\* attempts no notification, leaves msg as it was and sets timestamp to the
\* answer's 'current_date'.
C5_EmptyListAdvancesSilently ==
    (last.steps # <<>> /\ ~Failed /\ last.answer.n = 0) =>
        /\ last.outcome = "empty"
        /\ last.attempts = <<>>
        /\ last.kept
        /\ timestamp = last.answer.current_date

C5_Witness ==
    /\ last.outcome = "empty"
    /\ msg # EmptyText
    /\ last.answer.current_date # last.tsBefore
    /\ timestamp = last.answer.current_date

\* C6: once check_tokens() has returned, main() is in its loop and can take
\* another iteration, whatever failed before: no exception leaves the loop.
C6_LoopNeverTerminates ==
    /\ pc # "crashed"
    /\ (pc # "start" /\ tokens_err = NoErr) => (pc = "loop" /\ ENABLED Cycle)

\* A failure notification whose delivery failed, and the loop goes on.
C6_Witness ==
    /\ pc = "loop"
    /\ Failed
    /\ AttemptsOfLast = 1
    /\ ~last.attempts[1].delivered
    /\ prev.failed

AbsentTokens == {n \in SeqToSet(token_names) : env[n] = None}

\* C7: check_tokens() raises if and only if some token is absent, and the
\* one exception it raises names every absent token once and no other.
C7_NamesEveryAbsentToken ==
    pc # "start" =>
        /\ (tokens_err # NoErr) <=> (AbsentTokens # {})
        /\ tokens_err # NoErr =>
              /\ tokens_err.exc = "TypeError"
              /\ SeqToSet(tokens_err.arg) = AbsentTokens
              /\ Len(tokens_err.arg) = Cardinality(AbsentTokens)

C7_Witness ==
    /\ pc = "halted"
    /\ tokens_err.arg = <<"PRACTICUM_TOKEN", "TELEGRAM_TOKEN">>

\* C8: with a token absent main() never enters the loop: it halts at
\* check_tokens(), nothing was fetched or sent, and nothing follows.
C8_HaltsBeforeLoop ==
    AbsentTokens # {} =>
        /\ pc \in {"start", "halted"}
        /\ last = NoCycle
        /\ msg = EmptyText
        /\ pc = "halted" => ~ENABLED Next

C8_Witness ==
    /\ pc = "halted"
    /\ Cardinality(AbsentTokens) = 1

\* The verdict the table is to give for a status code.
ExpectedVerdict(status) ==
    CASE status = "approved" ->
            "Rabota proverena: revyueru vsyo ponravilos. Ura!"
      [] status = "reviewing" -> "Rabota vzyata na proverku revyuerom."
      [] status = "rejected" ->
            "Rabota proverena: u revyuera est zamechaniya."

\* C9: for a record with both fields parse_status returns the template with
\* the record's name and the table's verdict when the status is approved,
\* reviewing or rejected, and raises the unknown-verdict KeyError for every
\* other status; a record missing a field is rejected with a KeyError naming
\* every missing field, whatever its status.
C9_ParseStatusTotal ==
    (call.done /\ call.arg.type = "dict") =>
        LET hw == call.arg
            missing == {"homework_name", "status"} \ hw.keys
        IN  IF missing # {}
            THEN /\ call.err.exc = "KeyError"
                 /\ call.err.kind = "Not found keys [] in homework obj."
                 /\ SeqToSet(call.err.arg) = missing
                 /\ Len(call.err.arg) = Cardinality(missing)
            ELSE IF hw.status \in {"approved", "reviewing", "rejected"}
            THEN /\ call.err = NoErr
                 /\ call.val.kind = "Izmenilsya status proverki raboty"
                 /\ call.val.arg = <<hw.homework_name, ExpectedVerdict(hw.status)>>
            ELSE /\ call.err.exc = "KeyError"
                 /\ call.err.kind = "Not found key in verdicts dict."
                 /\ call.err.arg = <<hw.status>>

C9_Witness ==
    /\ call.done
    /\ call.arg.keys = {"homework_name", "status"}
    /\ call.arg.status = "pending"
    /\ call.err.kind = "Not found key in verdicts dict."

\* C10: check_response accepts exactly the dicts that hold both keys with a
\* list under 'homeworks'; it rejects a payload that is no dict with a
\* TypeError, a dict missing keys with a KeyError naming every missing key,
\* and a dict with both keys whose 'homeworks' is no list with a TypeError.
C10_CheckResponse ==
    (Len(last.steps) >= 2 /\ last.steps[2] = "check") =>
        LET a == last.answer
            missing == {HOMEWORKS_KEY, CURR_TIME_KEY} \ a.keys
            rejected == last.outcome = "check_failed"
        IN  /\ ~rejected <=>
                  (a.type = "dict" /\ missing = {} /\ a.hwtype = "list")
            /\ a.type # "dict" =>
                  /\ last.err.exc = "TypeError"
                  /\ last.err.kind = "Response object type is, expected type: dict."
            /\ (a.type = "dict" /\ missing # {}) =>
                  /\ last.err.exc = "KeyError"
                  /\ SeqToSet(last.err.arg) = missing
                  /\ Len(last.err.arg) = Cardinality(missing)
            /\ (a.type = "dict" /\ missing = {} /\ a.hwtype # "list") =>
                  /\ last.err.exc = "TypeError"
                  /\ last.err.kind = "Homeworks object type is, expected type: list."

C10_Witness ==
    /\ last.outcome = "check_failed"
    /\ last.err.exc = "KeyError"
    /\ Len(last.err.arg) = 2

\* C11: an iteration whose answer holds a non-empty 'homeworks' list and
\* that advances timestamp has passed every record of the list to
\* parse_status and attempted a notification for each of them.
C11_EveryRecordNotified ==
    (last.outcome = "notified" /\ last.answer.n > 0) =>
        /\ last.translated = last.answer.n
        /\ AttemptsOfLast = last.answer.n

Count(seq, x) == Cardinality({i \in 1..Len(seq) : seq[i] = x})

\* C12: every iteration starts with its only fetch and ends with its only
\* sleep, of RETRY_PERIOD seconds, whatever happened in between; so the loop
\* sleeps exactly once between two consecutive fetches.
C12_SleepsOncePerCycle ==
    last.steps # <<>> =>
        /\ Head(last.steps) = "fetch"
        /\ Count(last.steps, "fetch") = 1
        /\ Count(last.steps, "sleep") = 1
        /\ last.steps[Len(last.steps)] = "sleep"
        /\ last.slept = RETRY_PERIOD

\* The iteration took the except block of the third try statement, whose
\* continue runs through the finally clause.
C12_Witness ==
    /\ last.outcome = "parse_failed"
    /\ prev.failed
    /\ Count(last.steps, "sleep") = 1
    /\ last.slept = RETRY_PERIOD

FetchErrors == {"ConnectionError", "APIError", "JSONDecodeError"}
Position(seq, x) == CHOOSE i \in 1..Len(seq) : seq[i] = x
IsStatusText(text) == text.kind = "Izmenilsya status proverki raboty"

\* C13: check_response runs second and only when get_api_answer raised
\* nothing; parse_status runs third and only on an answer check_response
\* accepted; a status notification is attempted only after parse_status
\* returned in the same iteration, with the text it returned.
C13_StepsInOrder ==
    last.steps # <<>> =>
        LET s == last.steps
            a == last.answer
        IN  /\ s[1] = "fetch"
            /\ Count(s, "check") <= 1 /\ Count(s, "parse") <= 1
            /\ Count(s, "check") = 1 <=> last.err.exc \notin FetchErrors
            /\ Count(s, "check") = 1 => s[2] = "check"
            /\ Count(s, "parse") = 1 =>
                  /\ s[2] = "check" /\ s[3] = "parse"
                  /\ a.type = "dict"
                  /\ a.keys = {HOMEWORKS_KEY, CURR_TIME_KEY}
                  /\ a.hwtype = "list"
            /\ \A i \in 1..Len(last.attempts) :
                  IsStatusText(last.attempts[i].text) =>
                      /\ Count(s, "parse") = 1
                      /\ Position(s, "parse") < Position(s, "send")
                      /\ last.err = NoErr
                      /\ last.attempts[i].text = parse_status(last.hw).val

C13_Witness ==
    /\ last.steps = <<"fetch", "check", "parse", "send", "sleep">>
    /\ AttemptsOfLast = 1
    /\ IsStatusText(last.attempts[1].text)

\* C18: an iteration makes at most one notification attempt.
C18_AtMostOneAttempt ==
    AttemptsOfLast <= 1

\* The iteration reached parse_status, which raised, and sent one message.
C18_Witness ==
    /\ last.outcome = "parse_failed"
    /\ last.translated = 1
    /\ AttemptsOfLast = 1

\* C14: msg is the text of the most recent notification attempt, delivered
\* or not, and it is the empty text exactly when no attempt has been made.
C14_MsgIsLastAttempt ==
    pc # "start" =>
        /\ msg = attempted.text
        /\ (msg = EmptyText) <=> ~attempted.made

\* The most recent attempt was a failure text whose delivery failed.
C14_Witness ==
    /\ attempted.made
    /\ Failed
    /\ AttemptsOfLast = 1
    /\ ~last.attempts[1].delivered
    /\ msg = last.attempts[1].text

StatusDeliveryFailed ==
    \E i \in 1..AttemptsOfLast :
        /\ IsStatusText(last.attempts[i].text)
        /\ ~last.attempts[i].delivered

\* C15: an iteration whose status notification was not delivered ends like
\* one whose notification was: no except block runs, that one attempt is
\* the only one, and timestamp becomes the answer's 'current_date'; the
\* next iteration sends nothing for it: it attempts a status text only for
\* a record of its own answer.
C15_DeliveryFailureOnlyLogged ==
    /\ StatusDeliveryFailed =>
          /\ last.outcome = "notified"
          /\ last.err = NoErr
          /\ AttemptsOfLast = 1
          /\ last.steps = <<"fetch", "check", "parse", "send", "sleep">>
          /\ timestamp = last.answer.current_date
    /\ prev.undelivered =>
          /\ last.translated = 0 => (\A i \in 1..AttemptsOfLast :
                                        ~IsStatusText(last.attempts[i].text))
          /\ last.outcome = "empty" => last.attempts = <<>>

\* The iteration after an undelivered status notification got an empty
\* list and sent nothing.
C15_Witness ==
    /\ prev.undelivered
    /\ prev.attempts = 1
    /\ ~prev.failed
    /\ last.outcome = "empty"
    /\ last.attempts = <<>>

\* C16: a failing iteration attempts its notification if and only if its
\* text differs from the text of the most recent attempt (or there was
\* none), however many iterations without an attempt lie in between.
C16_NotifiedIffNovel ==
    Failed => ((AttemptsOfLast = 1) <=> last.novel)

\* A failure text suppressed although the iteration before it was an
\* empty-list success: the attempt it repeats is older than that.
C16_Witness ==
    /\ Failed
    /\ ~last.novel
    /\ AttemptsOfLast = 0
    /\ ~prev.failed
    /\ prev.attempts = 0

\* C17: whenever parse_status returns a text, the iteration attempts a
\* notification with that text, also when the text equals msg.
C17_StatusAlwaysSent ==
    (last.translated = 1 /\ parse_status(last.hw).err = NoErr) =>
        /\ AttemptsOfLast = 1
        /\ last.attempts[1].text = parse_status(last.hw).val

\* The text sent is the one msg held before the iteration.
C17_Witness ==
    /\ last.outcome = "notified"
    /\ last.kept
    /\ AttemptsOfLast = 1
    /\ last.attempts[1].text = msg

\* C19: the text of a transport failure embeds the timestamp of the request;
\* a transport failure with the cause of the most recent attempt is attempted
\* again once an iteration has changed timestamp since that attempt; a
\* protocol failure with the cause of the most recent attempt renders the
\* same text and is not attempted, whatever timestamp is.
C19_RenotifiedAfterWindowChange ==
    /\ last.err.exc = "ConnectionError" =>
          /\ last.outcome = "fetch_failed"
          /\ last.text.params = <<last.tsBefore>>
          /\ (last.sameCause /\ last.movedSince) =>
                (~last.sameParams /\ AttemptsOfLast = 1)
          /\ (last.sameCause /\ AttemptsOfLast = 0) => ~last.movedSince
    /\ (last.err.exc = "APIError" /\ last.sameCause) =>
          /\ last.sameParams
          /\ AttemptsOfLast = 0

\* What holds of the texts in C19: a transport failure with the cause of the
\* most recent attempt is attempted again exactly when timestamp differs
\* from the one embedded in that attempt's text.
TransportTextEmbedsWindow ==
    /\ last.err.exc = "ConnectionError" =>
          /\ last.outcome = "fetch_failed"
          /\ last.text.params = <<last.tsBefore>>
          /\ last.sameCause => ((AttemptsOfLast = 1) <=> ~last.sameParams)
    /\ (last.err.exc = "APIError" /\ last.sameCause) =>
          /\ last.sameParams
          /\ AttemptsOfLast = 0

====
